---- MODULE Spec2Model ----
(***************************************************************************)
(* Model of src/src/index.ts (class MicrosoftRewardsBot).                  *)
(*                                                                         *)
(* Two specifications share the variables below:                           *)
(*   Spec         one process executing run() with clusters <= 1, i.e.     *)
(*                runTasks over its account list, Desktop() and Mobile()   *)
(*                statement by statement (one action per awaited call);    *)
(*   SpecCluster  the primary process of run() with clusters > 1           *)
(*                (runMaster and its 'exit' handler) together with the     *)
(*                worker processes it forks (runWorker, runTasks).         *)
(***************************************************************************)
EXTENDS Integers, Sequences, FiniteSets, TLC

\* ---------------------------------------------------------------- bounds
MaxAccounts == 2
MaxTens == 3
MaxClusters == 3
MaxPages == 4
MaxClusterAccounts == 4

\* Values getEarnablePoints may return: 0, 10, ..., 10 * MaxTens.
EarnableValues == {10 * t : t \in 0..MaxTens}

VARIABLES
    \* config (loadConfig, index.ts:45) and accounts (loadAccounts, index.ts:50)
    clusters, runOnZeroPoints, workerFlags, accounts,
    \* the process executing runTasks
    pc,               \* next statement of runTasks / Desktop / Mobile
    chunk,            \* parameter `accounts` of runTasks
    idx,              \* position of the for-of loop in chunk (1-based)
    phase,            \* "none", "Desktop" or "Mobile": the phase being run
    collectedPoints,  \* this.collectedPoints
    earnablePoints,   \* the local `earnablePoints` of the current phase
    hasCounter,       \* data.userStatus.counters.mobileSearch is present
    earlyExit,        \* the current Desktop run returned at line 160
    sessions,         \* browsers created and not closed: <<account, phase>>
    pageCount,        \* pages.length of the current browser
    steps,            \* collaborator calls completed in the current phase run
    fault,            \* the fault that left runTasks, or "none"
    exitCode,         \* -1 while the process lives, else its exit code
    desktopPoints,    \* value Desktop stored in collectedPoints (line 152)
    desktopStarted, desktopReturned,
    mobileStarted, mobileReturned, mobileSkipped,
    \* the primary process and its workers (clusters > 1)
    mpc,              \* "run", "forking", "listening", "exited"
    accountChunks,    \* const accountChunks of runMaster
    forkI,            \* loop variable i of runMaster (0-based)
    activeWorkers,    \* this.activeWorkers of the primary
    workers,          \* forked workers, in fork order: [state, chunk, pos, code]
    inbox,            \* per worker: IPC messages sent to it and not yet received
    sent,             \* per worker: every chunk sent to it, in order
    exitEvents,       \* 'exit' events emitted and not yet handled: <<worker, code>>
    reported,         \* workers whose 'exit' event was handled, in handling order
    primaryExit       \* -1 while the primary lives, else its exit code

cfgVars == <<clusters, runOnZeroPoints, workerFlags, accounts>>
laneVars == <<pc, chunk, idx, phase, collectedPoints, earnablePoints, hasCounter,
              earlyExit,
              sessions, pageCount, steps, fault, exitCode, desktopPoints, desktopStarted,
              desktopReturned, mobileStarted, mobileReturned, mobileSkipped>>
clusterVars == <<mpc, accountChunks, forkI, activeWorkers, workers, inbox, sent,
                 exitEvents, reported, primaryExit>>
vars == <<cfgVars, laneVars, clusterVars>>

Flags == [doDailySet : BOOLEAN, doMorePromotions : BOOLEAN, doPunchCards : BOOLEAN,
          doDesktopSearch : BOOLEAN, doMobileSearch : BOOLEAN]

\* Accounts are identified by their position in the loaded list (emails are unique).
AccountList(n) == [k \in 1..n |-> k]

Range(s) == {s[k] : k \in DOMAIN s}

\* ------------------------------------------------------- pure expressions

SkipMobileOr(runOnZero, points) == ~runOnZero \/ points = 0

SkipMobileIgnoringFlag(runOnZero, points) == points = 0

\* index.ts:108  !this.config.runOnZeroPoints && this.collectedPoints === 0
SkipMobile(runOnZero, points) == ~runOnZero /\ points = 0

DesktopEarlyExitFlipped(runOnZero, points) == runOnZero /\ points = 0

\* index.ts:156  !this.config.runOnZeroPoints && this.collectedPoints === 0
DesktopEarlyExit(runOnZero, points) == ~runOnZero /\ points = 0

StoreEarnableAdded(collected, earnable) == collected + earnable

\* index.ts:152  this.collectedPoints = earnablePoints
StoreEarnable(collected, earnable) == earnable

RetractPointsAdded(collected, earnable) ==
    IF earnable = 0 THEN collected ELSE collected + earnable

RetractPointsSwapped(collected, earnable) ==
    IF earnable = 0 THEN collected ELSE earnable - collected

\* index.ts:227  earnablePoints === 0 ? collectedPoints : collectedPoints - earnablePoints
RetractPoints(collected, earnable) ==
    IF earnable = 0 THEN collected ELSE collected - earnable

NoMobileSearchFlipped(present) == present

\* index.ts:211  !data.userStatus.counters.mobileSearch
NoMobileSearch(present) == ~present

Executors == {"doDailySet", "doMorePromotions", "doPunchCard", "doSearch", "doMobileSearch"}

\* The task executors among the calls of the current phase run, in call order.
Invoked == SelectSeq(steps, LAMBDA s : s \in Executors)

CountOf(s, x) == Cardinality({k \in DOMAIN s : s[k] = x})

\* ------------------------------------------------------------ the lane

\* Variables of the primary/worker model are not touched by the lane.
LaneOnly == UNCHANGED <<cfgVars, clusterVars>>

\* The fault is caught around the account and the loop goes on with the next one.
ThrowCaught(kind) ==
    /\ pc' = "loop"
    /\ idx' = idx + 1
    /\ fault' = kind
    /\ UNCHANGED <<chunk, phase, collectedPoints, earnablePoints, hasCounter, earlyExit,
                   sessions, pageCount, steps, exitCode, desktopPoints, desktopStarted,
                   desktopReturned, mobileStarted, mobileReturned, mobileSkipped>>

\* A rejected await: neither Desktop, Mobile nor runTasks has a try/catch, so the
\* fault leaves all three and the loop is abandoned.
Throw(kind) ==
    /\ pc' = "aborted"
    /\ fault' = kind
    /\ UNCHANGED <<chunk, idx, phase, collectedPoints, earnablePoints, hasCounter, earlyExit,
                   sessions, pageCount, steps, exitCode, desktopPoints, desktopStarted,
                   desktopReturned, mobileStarted, mobileReturned, mobileSkipped>>

\* An awaited collaborator call that returns: record it and go on at `next`.
Call(name, next) ==
    /\ steps' = Append(steps, name)
    /\ pc' = next
    /\ UNCHANGED <<chunk, idx, phase, collectedPoints, earnablePoints, hasCounter, earlyExit,
                   sessions, pageCount, fault, exitCode, desktopPoints, desktopStarted,
                   desktopReturned, mobileStarted, mobileReturned, mobileSkipped>>

UseClusterFromOne(n) == n >= 1

\* index.ts:57  this.config.clusters > 1
UseCluster(n) == n > 1

\* index.ts:64  run() with clusters <= 1: this.runTasks(this.accounts)
Run ==
    /\ pc = "run"
    /\ ~UseCluster(clusters)
    /\ pc' = "loop"
    /\ chunk' = accounts
    /\ idx' = 1
    /\ UNCHANGED <<phase, collectedPoints, earnablePoints, hasCounter, earlyExit, sessions, pageCount, steps,
                   fault, exitCode, desktopPoints, desktopStarted, desktopReturned,
                   mobileStarted, mobileReturned, mobileSkipped>>
    /\ LaneOnly

\* index.ts:101-105  next account of the loop: call Desktop(account)
LoopNext ==
    /\ pc = "loop"
    /\ idx <= Len(chunk)
    /\ pc' = "d_create"
    /\ phase' = "Desktop"
    /\ steps' = <<>>
    /\ desktopStarted' = desktopStarted \cup {chunk[idx]}
    /\ UNCHANGED <<chunk, idx, collectedPoints, earnablePoints, hasCounter, earlyExit, sessions, pageCount,
                   fault, exitCode, desktopPoints, desktopReturned, mobileStarted,
                   mobileReturned, mobileSkipped>>
    /\ LaneOnly

\* The loop test off by one: the last account of the chunk is left out.
LoopDoneEarly ==
    /\ pc = "loop"
    /\ idx >= Len(chunk)
    /\ pc' = "exited"
    /\ exitCode' = 0
    /\ UNCHANGED <<chunk, idx, phase, collectedPoints, earnablePoints, hasCounter,
                   earlyExit, sessions, pageCount, steps, fault, desktopPoints,
                   desktopStarted, desktopReturned, mobileStarted, mobileReturned,
                   mobileSkipped>>
    /\ LaneOnly

\* index.ts:118-120  loop exhausted: process.exit(0)
LoopDone ==
    /\ pc = "loop"
    /\ idx > Len(chunk)
    /\ pc' = "exited"
    /\ exitCode' = 0
    /\ UNCHANGED <<chunk, idx, phase, collectedPoints, earnablePoints, hasCounter, earlyExit,
                   sessions, pageCount, steps, fault, desktopPoints, desktopStarted,
                   desktopReturned, mobileStarted, mobileReturned, mobileSkipped>>
    /\ LaneOnly

\* index.ts:125 / 189  createBrowser(email, proxy, isMobile)
CreateBrowser(at, next) ==
    /\ pc = at
    /\ \E ok \in BOOLEAN :
        IF ok
        THEN /\ sessions' = sessions \cup {<<chunk[idx], phase>>}
             /\ steps' = Append(steps, "open")
             /\ pc' = next
             /\ UNCHANGED <<chunk, idx, phase, collectedPoints, earnablePoints,
                            hasCounter, earlyExit, pageCount, fault, exitCode, desktopPoints, desktopStarted,
                            desktopReturned, mobileStarted, mobileReturned,
                            mobileSkipped>>
        ELSE Throw("ProviderFault")
    /\ LaneOnly

\* An awaited call whose only outcomes are return and fault.
Await(at, name, next, kind) ==
    /\ pc = at
    /\ \E ok \in BOOLEAN : IF ok THEN Call(name, next) ELSE Throw(kind)
    /\ LaneOnly

\* index.ts:130-133 / 194-197  while (pages.length > 2) close pages[0]
RECURSIVE ClosePages(_)
ClosePages(n) == IF n > 2 THEN ClosePages(n - 1) ELSE n

\* index.ts:126-133 / 190-197  newPage, pages(), then close the pages beyond two
PrunePages(at, next) ==
    /\ pc = at
    /\ \E ok \in BOOLEAN :
        IF ok
        THEN \E n \in 1..MaxPages :
                /\ pageCount' = ClosePages(n)
                /\ steps' = Append(steps, "prune")
                /\ pc' = next
                /\ UNCHANGED <<chunk, idx, phase, collectedPoints, earnablePoints,
                               hasCounter, earlyExit, sessions, fault, exitCode, desktopPoints,
                               desktopStarted, desktopReturned, mobileStarted,
                               mobileReturned, mobileSkipped>>
        ELSE Throw("ProviderFault")
    /\ LaneOnly

DesktopPrunePages == PrunePages("d_pages", "d_auth")
\* index.ts:136  page.authenticate(proxy credentials)
DesktopAuthenticate == Await("d_auth", "authenticate", "d_login", "ProviderFault")
\* index.ts:141  login.login(page, email, password)
DesktopLogin == Await("d_login", "login", "d_home", "LoginFailed")

\* index.ts:143-146  goHome; a false result is thrown
DesktopGoHome ==
    /\ pc = "d_home"
    /\ \E wentHome \in BOOLEAN :
        IF wentHome THEN Call("goHome", "d_data") ELSE Throw("DashboardUnreachable")
    /\ LaneOnly

\* index.ts:148  getDashboardData(page)
DesktopGetDashboardData == Await("d_data", "getDashboardData", "d_earn", "ProviderFault")

\* index.ts:151-161  getEarnablePoints, collectedPoints = earnablePoints, the gate
DesktopGetEarnablePoints ==
    /\ pc = "d_earn"
    /\ \E ok \in BOOLEAN :
        IF ok
        THEN \E e \in EarnableValues :
                /\ earnablePoints' = e
                /\ collectedPoints' = StoreEarnable(collectedPoints, e)
                /\ desktopPoints' = collectedPoints'
                /\ steps' = Append(steps, "getEarnablePoints")
                /\ earlyExit' = DesktopEarlyExit(runOnZeroPoints, collectedPoints')
                /\ pc' = IF earlyExit' THEN "d_close" ELSE "d_daily"
                /\ UNCHANGED <<chunk, idx, phase, hasCounter, sessions, pageCount, fault, exitCode,
                               desktopStarted, desktopReturned, mobileStarted,
                               mobileReturned, mobileSkipped>>
        ELSE Throw("ProviderFault")
    /\ LaneOnly

\* A flag-gated executor call: run it if the flag is set, else fall through.
Executor(at, flag, name, next) ==
    /\ pc = at
    /\ IF flag
       THEN \E ok \in BOOLEAN : IF ok THEN Call(name, next) ELSE Throw("ProviderFault")
       ELSE /\ pc' = next
            /\ UNCHANGED <<chunk, idx, phase, collectedPoints, earnablePoints,
                           hasCounter, earlyExit, sessions, pageCount, steps, fault, exitCode, desktopPoints,
                           desktopStarted, desktopReturned, mobileStarted,
                           mobileReturned, mobileSkipped>>
    /\ LaneOnly

\* index.ts:164-166
DesktopDailySet == Executor("d_daily", workerFlags.doDailySet, "doDailySet", "d_more")
\* index.ts:169-171
DesktopMorePromotions ==
    Executor("d_more", workerFlags.doMorePromotions, "doMorePromotions", "d_punch")
\* The punch cards gated by the flag of the more-promotions block above it.
DesktopPunchCardsByPromotionsFlag ==
    Executor("d_punch", workerFlags.doMorePromotions, "doPunchCard", "d_search")

\* index.ts:174-176
DesktopPunchCards == Executor("d_punch", workerFlags.doPunchCards, "doPunchCard", "d_search")
\* index.ts:179-181
DesktopSearch == Executor("d_search", workerFlags.doDesktopSearch, "doSearch", "d_close")

\* The page is closed instead of the browser: the session stays open.
CloseBrowserLeavesSession(at, next) ==
    /\ pc = at
    /\ steps' = Append(steps, "close")
    /\ pc' = next
    /\ desktopReturned' = IF phase = "Desktop" THEN desktopReturned \cup {chunk[idx]}
                                               ELSE desktopReturned
    /\ mobileReturned' = IF phase = "Mobile" THEN mobileReturned \cup {chunk[idx]}
                                             ELSE mobileReturned
    /\ UNCHANGED <<chunk, idx, phase, collectedPoints, earnablePoints, hasCounter,
                   earlyExit, sessions, pageCount, fault, exitCode, desktopPoints,
                   desktopStarted, mobileStarted, mobileSkipped>>
    /\ LaneOnly

\* index.ts:160 / 184 / 215 / 231  browser.close(), then the phase returns
CloseBrowser(at, next) ==
    /\ pc = at
    /\ sessions' = sessions \ {<<chunk[idx], phase>>}
    /\ pageCount' = 0
    /\ steps' = Append(steps, "close")
    /\ pc' = next
    /\ desktopReturned' = IF phase = "Desktop" THEN desktopReturned \cup {chunk[idx]}
                                               ELSE desktopReturned
    /\ mobileReturned' = IF phase = "Mobile" THEN mobileReturned \cup {chunk[idx]}
                                             ELSE mobileReturned
    /\ UNCHANGED <<chunk, idx, phase, collectedPoints, earnablePoints, hasCounter, earlyExit,
                   fault, exitCode, desktopPoints, desktopStarted, mobileStarted,
                   mobileSkipped>>
    /\ LaneOnly

DesktopClose == CloseBrowser("d_close", "gate")

\* Mobile(account) called without await: the loop goes on while Mobile still runs.
GateNoAwait ==
    /\ pc = "gate"
    /\ pc' = "loop"
    /\ idx' = idx + 1
    /\ IF SkipMobile(runOnZeroPoints, collectedPoints)
       THEN /\ mobileSkipped' = mobileSkipped \cup {chunk[idx]}
            /\ UNCHANGED mobileStarted
       ELSE /\ mobileStarted' = mobileStarted \cup {chunk[idx]}
            /\ UNCHANGED mobileSkipped
    /\ UNCHANGED <<chunk, phase, steps, collectedPoints, earnablePoints, hasCounter, earlyExit,
                   sessions, pageCount, fault, exitCode, desktopPoints, desktopStarted,
                   desktopReturned, mobileReturned>>
    /\ LaneOnly

\* index.ts:108-113  after Desktop returned: `continue`, or call Mobile(account)
Gate ==
    /\ pc = "gate"
    /\ IF SkipMobile(runOnZeroPoints, collectedPoints)
       THEN /\ pc' = "loop"
            /\ idx' = idx + 1
            /\ mobileSkipped' = mobileSkipped \cup {chunk[idx]}
            /\ UNCHANGED <<phase, steps, mobileStarted>>
       ELSE /\ pc' = "m_create"
            /\ phase' = "Mobile"
            /\ steps' = <<>>
            /\ mobileStarted' = mobileStarted \cup {chunk[idx]}
            /\ UNCHANGED <<idx, mobileSkipped>>
    /\ UNCHANGED <<chunk, collectedPoints, earnablePoints, hasCounter, earlyExit, sessions, pageCount, fault,
                   exitCode, desktopPoints, desktopStarted, desktopReturned,
                   mobileReturned>>
    /\ LaneOnly

DesktopCreateBrowser == CreateBrowser("d_create", "d_pages")
MobileCreateBrowser == CreateBrowser("m_create", "m_pages")

MobilePrunePages == PrunePages("m_pages", "m_auth")
\* Mobile without the proxy login.
MobileAuthenticateSkipped ==
    /\ pc = "m_auth"
    /\ pc' = "m_login"
    /\ UNCHANGED <<chunk, idx, phase, collectedPoints, earnablePoints, hasCounter,
                   earlyExit, sessions, pageCount, steps, fault, exitCode, desktopPoints,
                   desktopStarted, desktopReturned, mobileStarted, mobileReturned,
                   mobileSkipped>>
    /\ LaneOnly

\* index.ts:199
MobileAuthenticate == Await("m_auth", "authenticate", "m_login", "ProviderFault")
\* index.ts:204
MobileLogin == Await("m_login", "login", "m_home", "LoginFailed")

\* goHome as Desktop treats it: a false result is thrown.
MobileGoHomeThrows ==
    /\ pc = "m_home"
    /\ \E wentHome \in BOOLEAN :
        IF wentHome THEN Call("goHome", "m_data") ELSE Throw("DashboardUnreachable")
    /\ LaneOnly

\* index.ts:206  goHome; the result (kept in steps as "goHomeFalse") is not looked at
MobileGoHome ==
    /\ pc = "m_home"
    /\ \E wentHome \in BOOLEAN :
        Call(IF wentHome THEN "goHome" ELSE "goHomeFalse", "m_data")
    /\ LaneOnly

\* index.ts:208-216  getDashboardData, then stop when there is no mobileSearch counter
MobileGetDashboardData ==
    /\ pc = "m_data"
    /\ \E ok \in BOOLEAN :
        IF ok
        THEN \E present \in BOOLEAN :
                /\ hasCounter' = present
                /\ steps' = Append(steps, "getDashboardData")
                /\ pc' = IF NoMobileSearch(present) THEN "m_close" ELSE "m_search"
                /\ UNCHANGED <<chunk, idx, phase, collectedPoints, earnablePoints,
                               earlyExit, sessions, pageCount, fault, exitCode,
                               desktopPoints, desktopStarted, desktopReturned,
                               mobileStarted, mobileReturned, mobileSkipped>>
        ELSE Throw("ProviderFault")
    /\ LaneOnly

\* index.ts:219-221
MobileSearch == Executor("m_search", workerFlags.doMobileSearch, "doMobileSearch", "m_earn")

\* index.ts:224-228  getEarnablePoints(data, page), then retract what is still earnable
MobileGetEarnablePoints ==
    /\ pc = "m_earn"
    /\ \E ok \in BOOLEAN :
        IF ok
        THEN \E e \in EarnableValues :
                /\ earnablePoints' = e
                /\ collectedPoints' = RetractPoints(collectedPoints, e)
                /\ steps' = Append(steps, "getEarnablePoints")
                /\ pc' = "m_close"
                /\ UNCHANGED <<chunk, idx, phase, hasCounter, earlyExit, sessions, pageCount, fault, exitCode,
                               desktopPoints, desktopStarted, desktopReturned,
                               mobileStarted, mobileReturned, mobileSkipped>>
        ELSE Throw("ProviderFault")
    /\ LaneOnly

MobileClose == CloseBrowser("m_close", "next")

\* index.ts:115-116  Mobile returned: log, next iteration
NextAccount ==
    /\ pc = "next"
    /\ pc' = "loop"
    /\ idx' = idx + 1
    /\ UNCHANGED <<chunk, phase, collectedPoints, earnablePoints, hasCounter, earlyExit, sessions, pageCount,
                   steps, fault, exitCode, desktopPoints, desktopStarted,
                   desktopReturned, mobileStarted, mobileReturned, mobileSkipped>>
    /\ LaneOnly

\* index.ts:64 / 96  the promise of runTasks is rejected and nobody handles it: the
\* runtime may end the process with code 1 (or only warn and leave it alive).
UnhandledRejection ==
    /\ pc = "aborted"
    /\ pc' = "exited"
    /\ exitCode' = 1
    /\ UNCHANGED <<chunk, idx, phase, collectedPoints, earnablePoints, hasCounter, earlyExit,
                   sessions, pageCount, steps, fault, desktopPoints, desktopStarted,
                   desktopReturned, mobileStarted, mobileReturned, mobileSkipped>>
    /\ LaneOnly

InitialActiveWorkersLess(n) == n - 1

\* index.ts:46  this.activeWorkers = this.config.clusters
InitialActiveWorkers(n) == n

\* The primary as constructed (index.ts:35-47): nothing forked, nothing received.
ClusterIdle(at) ==
    /\ mpc = at
    /\ accountChunks = <<>>
    /\ forkI = 0
    /\ activeWorkers = InitialActiveWorkers(clusters)
    /\ workers = <<>>
    /\ inbox = <<>>
    /\ sent = <<>>
    /\ exitEvents = {}
    /\ reported = <<>>
    /\ primaryExit = -1

\* State of the lane model: constructed (index.ts:28, 35-47), nothing run yet.
LaneIdle(at) ==
    /\ pc = at
    /\ chunk = <<>>
    /\ idx = 0
    /\ phase = "none"
    /\ collectedPoints = 0
    /\ earnablePoints = 0
    /\ hasCounter = FALSE
    /\ earlyExit = FALSE
    /\ sessions = {}
    /\ pageCount = 0
    /\ steps = <<>>
    /\ fault = "none"
    /\ exitCode = -1
    /\ desktopPoints = 0
    /\ desktopStarted = {}
    /\ desktopReturned = {}
    /\ mobileStarted = {}
    /\ mobileReturned = {}
    /\ mobileSkipped = {}

\* index.ts:35-51, 235-240  constructor and initialize(), clusters <= 1
Init ==
    /\ clusters = 1
    /\ runOnZeroPoints \in BOOLEAN
    /\ workerFlags \in Flags
    /\ accounts \in {AccountList(n) : n \in 0..MaxAccounts}
    /\ LaneIdle("run")
    /\ ClusterIdle("none")

Next ==
    \/ Run
    \/ LoopNext
    \/ LoopDone
    \/ DesktopCreateBrowser
    \/ DesktopPrunePages
    \/ DesktopAuthenticate
    \/ DesktopLogin
    \/ DesktopGoHome
    \/ DesktopGetDashboardData
    \/ DesktopGetEarnablePoints
    \/ DesktopDailySet
    \/ DesktopMorePromotions
    \/ DesktopPunchCards
    \/ DesktopSearch
    \/ DesktopClose
    \/ Gate
    \/ MobileCreateBrowser
    \/ MobilePrunePages
    \/ MobileAuthenticate
    \/ MobileLogin
    \/ MobileGoHome
    \/ MobileGetDashboardData
    \/ MobileSearch
    \/ MobileGetEarnablePoints
    \/ MobileClose
    \/ NextAccount
    \/ UnhandledRejection

Spec == Init /\ [][Next]_vars

\* index.ts:100-232  the steps of runTasks itself: every action but the runtime's
\* reaction to the rejected promise.
RunTasksStep ==
    \/ Run
    \/ LoopNext
    \/ LoopDone
    \/ DesktopCreateBrowser
    \/ DesktopPrunePages
    \/ DesktopAuthenticate
    \/ DesktopLogin
    \/ DesktopGoHome
    \/ DesktopGetDashboardData
    \/ DesktopGetEarnablePoints
    \/ DesktopDailySet
    \/ DesktopMorePromotions
    \/ DesktopPunchCards
    \/ DesktopSearch
    \/ DesktopClose
    \/ Gate
    \/ MobileCreateBrowser
    \/ MobilePrunePages
    \/ MobileAuthenticate
    \/ MobileLogin
    \/ MobileGoHome
    \/ MobileGetDashboardData
    \/ MobileSearch
    \/ MobileGetEarnablePoints
    \/ MobileClose
    \/ NextAccount

\* Every awaited call settles (returns or rejects) and the continuation then runs;
\* nothing is assumed about what the runtime does with an unhandled rejection.
SpecFair == Spec /\ WF_vars(RunTasksStep)

\* ------------------------------------------------- the primary and its workers

Min(a, b) == IF a < b THEN a ELSE b

\* utils.chunkArray(accounts, clusters), index.ts:71. n chunks as even as possible
\* (sizes differ by at most 1), order kept, the longer chunks first.
chunkArray(arr, n) ==
    LET q == Len(arr) \div n
        r == Len(arr) % n
        first(i) == (i - 1) * q + Min(i - 1, r) + 1
        size(i) == q + (IF i <= r THEN 1 ELSE 0)
    IN  [i \in 1..n |-> SubSeq(arr, first(i), first(i) + size(i) - 1)]

ChunkAtFirst(chunks, i) == chunks[1]

\* index.ts:75  accountChunks[i]  (i counts from 0)
ChunkAt(chunks, i) == chunks[i + 1]

ActiveAfterExitSame(n) == n

\* index.ts:80  this.activeWorkers -= 1
ActiveAfterExit(n) == n - 1

\* index.ts:85  this.activeWorkers === 0
AllWorkersDestroyed(n) == n = 0

MasterExitCodeOfWorker(code) == code

\* index.ts:87  process.exit(0), whatever the code of the worker that exited last
MasterExitCode(code) == 0

\* Variables of the lane model are not touched by the primary and its workers, whose
\* runTasks is taken one loop iteration at a time.
ClusterOnly == UNCHANGED <<cfgVars, laneVars>>

\* index.ts:53-59, 68-71  run() in the primary with clusters > 1: runMaster
MasterRun ==
    /\ mpc = "run"
    /\ UseCluster(clusters)
    /\ accountChunks' = chunkArray(accounts, clusters)
    /\ forkI' = 0
    /\ mpc' = "forking"
    /\ UNCHANGED <<activeWorkers, workers, inbox, sent, exitEvents, reported,
                   primaryExit>>
    /\ ClusterOnly

\* index.ts:73-77  one iteration: cluster.fork(), worker.send({ chunk })
MasterFork ==
    /\ mpc = "forking"
    /\ forkI < Len(accountChunks)
    /\ workers' = Append(workers, [state |-> "spawned", chunk |-> <<>>, pos |-> 0,
                                   code |-> -1])
    /\ inbox' = Append(inbox, <<ChunkAt(accountChunks, forkI)>>)
    /\ sent' = Append(sent, <<ChunkAt(accountChunks, forkI)>>)
    /\ forkI' = forkI + 1
    /\ UNCHANGED <<mpc, accountChunks, activeWorkers, exitEvents, reported, primaryExit>>
    /\ ClusterOnly

\* index.ts:73, 79  the loop is over: cluster.on('exit', ...) registers the handler
MasterListen ==
    /\ mpc = "forking"
    /\ forkI >= Len(accountChunks)
    /\ mpc' = "listening"
    /\ UNCHANGED <<accountChunks, forkI, activeWorkers, workers, inbox, sent,
                   exitEvents, reported, primaryExit>>
    /\ ClusterOnly

\* index.ts:79-89  the 'exit' handler, for one exit event
OnExit ==
    /\ mpc = "listening"
    /\ \E ev \in exitEvents :
        /\ exitEvents' = exitEvents \ {ev}
        /\ reported' = Append(reported, ev[1])
        /\ activeWorkers' = ActiveAfterExit(activeWorkers)
        /\ IF AllWorkersDestroyed(activeWorkers')
           THEN mpc' = "exited" /\ primaryExit' = MasterExitCode(ev[2])
           ELSE UNCHANGED <<mpc, primaryExit>>
    /\ UNCHANGED <<accountChunks, forkI, workers, inbox, sent>>
    /\ ClusterOnly

WorkerStep(w, rec) ==
    /\ workers' = [workers EXCEPT ![w] = rec]
    /\ UNCHANGED <<mpc, accountChunks, forkI, activeWorkers, sent, reported, primaryExit>>
    /\ ClusterOnly

\* index.ts:53-61, 92-98  run() in a worker: runWorker registers the message handler
WorkerRun ==
    \E w \in DOMAIN workers :
        /\ workers[w].state = "spawned"
        /\ WorkerStep(w, [workers[w] EXCEPT !.state = "waiting"])
        /\ UNCHANGED <<inbox, exitEvents>>

\* index.ts:95-96  the message handler: runTasks(chunk) begins
WorkerReceive ==
    \E w \in DOMAIN workers :
        /\ workers[w].state = "waiting"
        /\ inbox[w] # <<>>
        /\ inbox' = [inbox EXCEPT ![w] = Tail(@)]
        /\ WorkerStep(w, [workers[w] EXCEPT !.state = "running",
                                            !.chunk = Head(inbox[w]), !.pos = 1])
        /\ UNCHANGED exitEvents

\* index.ts:101-116  one iteration of the loop of runTasks in a worker (Desktop, the
\* gate, Mobile): it completes, or a fault leaves runTasks
WorkerAccount ==
    \E w \in DOMAIN workers :
        /\ workers[w].state = "running"
        /\ workers[w].pos <= Len(workers[w].chunk)
        /\ \E ok \in BOOLEAN :
            IF ok THEN WorkerStep(w, [workers[w] EXCEPT !.pos = @ + 1])
                  ELSE WorkerStep(w, [workers[w] EXCEPT !.state = "aborted"])
        /\ UNCHANGED <<inbox, exitEvents>>

\* index.ts:118-120  the loop is over: process.exit(0); the primary gets 'exit'
WorkerDone ==
    \E w \in DOMAIN workers :
        /\ workers[w].state = "running"
        /\ workers[w].pos > Len(workers[w].chunk)
        /\ WorkerStep(w, [workers[w] EXCEPT !.state = "exited", !.code = 0])
        /\ exitEvents' = exitEvents \cup {<<w, 0>>}
        /\ UNCHANGED inbox

\* index.ts:95-96  the handler's promise is rejected and unhandled: the runtime may
\* end the worker with code 1 (or only warn and leave it alive)
WorkerUnhandledRejection ==
    \E w \in DOMAIN workers :
        /\ workers[w].state = "aborted"
        /\ WorkerStep(w, [workers[w] EXCEPT !.state = "exited", !.code = 1])
        /\ exitEvents' = exitEvents \cup {<<w, 1>>}
        /\ UNCHANGED inbox

\* index.ts:35-51, 235-240  constructor and initialize() of the primary, clusters > 1.
\* runOnZeroPoints and the worker flags are read only inside Desktop and Mobile.
InitCluster ==
    /\ clusters \in 2..MaxClusters
    /\ runOnZeroPoints = FALSE
    /\ workerFlags = [doDailySet |-> TRUE, doMorePromotions |-> TRUE,
                      doPunchCards |-> TRUE, doDesktopSearch |-> TRUE,
                      doMobileSearch |-> TRUE]
    /\ accounts \in {AccountList(n) : n \in 0..MaxClusterAccounts}
    /\ LaneIdle("none")
    /\ ClusterIdle("run")

NextCluster ==
    \/ MasterRun
    \/ MasterFork
    \/ MasterListen
    \/ OnExit
    \/ WorkerRun
    \/ WorkerReceive
    \/ WorkerAccount
    \/ WorkerDone
    \/ WorkerUnhandledRejection

SpecCluster == InitCluster /\ [][NextCluster]_vars

\* index.ts:35-51, 235-240  the launching process before run(), any worker count:
\* clusters <= 1 with every setting of the flags, clusters > 1 as in InitCluster.
InitRun ==
    /\ \/ /\ clusters \in 0..1
          /\ runOnZeroPoints \in BOOLEAN
          /\ workerFlags \in Flags
          /\ accounts \in {AccountList(n) : n \in 0..MaxAccounts}
       \/ /\ clusters \in 2..MaxClusters
          /\ runOnZeroPoints = FALSE
          /\ workerFlags = [doDailySet |-> TRUE, doMorePromotions |-> TRUE,
                            doPunchCards |-> TRUE, doDesktopSearch |-> TRUE,
                            doMobileSearch |-> TRUE]
          /\ accounts \in {AccountList(n) : n \in 0..MaxClusterAccounts}
    /\ LaneIdle("run")
    /\ ClusterIdle("run")

\* index.ts:53-66  run(): runTasks in this process, or runMaster and the workers
SpecRun == InitRun /\ [][Next \/ NextCluster]_vars

\* The primary runs its synchronous code to the end and its event loop delivers every
\* emitted 'exit' event; nothing is assumed about the workers.
SpecClusterFair ==
    /\ SpecCluster
    /\ WF_vars(MasterRun)
    /\ WF_vars(MasterFork)
    /\ WF_vars(MasterListen)
    /\ WF_vars(OnExit)

\* ------------------------------------------------------------------ claims

\* The collaborator calls of a Desktop phase up to and including getEarnablePoints.
DesktopPrefix == <<"open", "prune", "authenticate", "login", "goHome",
                   "getDashboardData", "getEarnablePoints">>

\* A phase run has ended: Desktop returned ("gate"), Mobile returned ("next"), or a
\* fault left the phase ("aborted").
PhaseEnded == pc \in {"gate", "next", "aborted"}

\* C1: every phase run that opened a session, however it ends (return, gated early
\* exit, or a fault of a later collaborator call), has closed that session exactly
\* once when it ends.
C1_SessionClosedOnEveryExit ==
    (PhaseEnded /\ CountOf(steps, "open") = 1)
        => (CountOf(steps, "close") = 1 /\ <<chunk[idx], phase>> \notin sessions)

\* C5: after a Desktop phase that returned, Mobile is entered for that account iff
\* not (runOnZeroPoints is false and collectedPoints is 0); when the gate triggers the
\* loop goes straight to the next account. Mobile is entered or skipped only for
\* accounts whose Desktop phase returned.
C5_MobileIffGateOpen ==
    /\ [](/\ (mobileStarted \cup mobileSkipped) \subseteq desktopReturned
          /\ mobileStarted \cap mobileSkipped = {})
    /\ [][pc = "gate" =>
            IF ~runOnZeroPoints /\ collectedPoints = 0
            THEN /\ pc' = "loop"
                 /\ idx' = idx + 1
                 /\ chunk[idx] \notin mobileStarted'
                 /\ chunk[idx] \in mobileSkipped'
            ELSE /\ pc' = "m_create"
                 /\ phase' = "Mobile"
                 /\ idx' = idx
                 /\ chunk[idx] \in mobileStarted'
                 /\ chunk[idx] \notin mobileSkipped']_vars

C5_Witness ==
    /\ Len(chunk) = 2
    /\ chunk[1] \in mobileSkipped
    /\ chunk[2] \in mobileStarted

\* C6: in a Desktop phase with runOnZeroPoints false whose getEarnablePoints returned
\* 0, no task executor is invoked whatever the worker flags are, and the call that
\* follows getEarnablePoints is browser.close().
C6_DesktopGateRunsNoExecutor ==
    (/\ phase = "Desktop"
     /\ "getEarnablePoints" \in Range(steps)
     /\ ~runOnZeroPoints
     /\ earnablePoints = 0)
        => /\ Invoked = <<>>
           /\ steps \in {DesktopPrefix, Append(DesktopPrefix, "close")}
           /\ pc = "d_close" <=> steps = DesktopPrefix

C6_Witness ==
    /\ pc = "gate"
    /\ ~runOnZeroPoints
    /\ earnablePoints = 0
    /\ workerFlags = [doDailySet |-> TRUE, doMorePromotions |-> TRUE,
                      doPunchCards |-> TRUE, doDesktopSearch |-> TRUE,
                      doMobileSearch |-> TRUE]
    /\ steps = Append(DesktopPrefix, "close")
    /\ sessions = {}

\* C7: in a Mobile phase whose dashboard data has no mobile-search counter, the
\* mobile search executor is not invoked (doMobileSearch set or not), collectedPoints
\* keeps the value it had when the phase was entered, and the session is closed.
C7_MobileWithoutCounterStops ==
    (/\ phase = "Mobile"
     /\ "getDashboardData" \in Range(steps)
     /\ ~hasCounter)
        => /\ Invoked = <<>>
           /\ "getEarnablePoints" \notin Range(steps)
           /\ collectedPoints = desktopPoints
           /\ pc \in {"m_close", "next", "loop", "exited"}
           /\ pc # "m_close" => (sessions = {} /\ CountOf(steps, "close") = 1)

C7_Witness ==
    /\ pc = "next"
    /\ phase = "Mobile"
    /\ ~hasCounter
    /\ workerFlags.doMobileSearch
    /\ collectedPoints = 30
    /\ sessions = {}

\* C8: a Mobile phase entered with collectedPoints = c whose post-search
\* getEarnablePoints returned e leaves collectedPoints = c if e = 0 and c - e
\* otherwise, with doMobileSearch set or not.
C8_MobileRetractsEarnable ==
    (/\ phase = "Mobile"
     /\ "getEarnablePoints" \in Range(steps))
        => collectedPoints = IF earnablePoints = 0 THEN desktopPoints
                                                   ELSE desktopPoints - earnablePoints

C8_Witness ==
    /\ pc = "next"
    /\ phase = "Mobile"
    /\ ~workerFlags.doMobileSearch
    /\ desktopPoints = 30
    /\ earnablePoints = 10
    /\ collectedPoints = 20

\* C9: when goHome returns false in Desktop, the fault leaves runTasks: no task
\* executor has run for that account, its Mobile phase is not entered, no phase of a
\* later account of the chunk is started, and the process does not exit with code 0.
C9_DashboardUnreachableAbortsLane ==
    fault = "DashboardUnreachable"
        => /\ pc \in {"aborted", "exited"}
           /\ exitCode # 0
           /\ phase = "Desktop"
           /\ Invoked = <<>>
           /\ chunk[idx] \notin (mobileStarted \cup mobileSkipped)
           /\ \A k \in (idx + 1)..Len(chunk) :
                chunk[k] \notin (desktopStarted \cup mobileStarted)

C9_Witness ==
    /\ fault = "DashboardUnreachable"
    /\ pc = "exited"
    /\ idx = 1
    /\ Len(chunk) = 2
    /\ desktopStarted = {chunk[1]}

\* C10: accounts are processed one after the other in chunk order: when the Desktop
\* phase of account k+1 has started, the Desktop phase of account k has returned and
\* its Mobile phase has returned or was skipped by the gate.
C10_AccountsSequential ==
    \A k \in 1..Len(chunk) :
        chunk[k] \in desktopStarted
            => \A j \in 1..(k - 1) :
                 /\ chunk[j] \in desktopStarted
                 /\ chunk[j] \in desktopReturned
                 /\ chunk[j] \in (mobileReturned \cup mobileSkipped)

C10_Witness ==
    /\ Len(chunk) = 2
    /\ chunk[2] \in desktopStarted
    /\ chunk[1] \in mobileReturned
    /\ pc = "d_create"

\* The forked workers that are still alive.
Alive == {w \in DOMAIN workers : workers[w].state # "exited"}

\* The forked workers whose 'exit' event the primary's handler has not run for.
Unreported == {w \in DOMAIN workers : w \notin Range(reported)}

\* C2: with clusters > 1 the primary exits (code 0) only after every worker it
\* forked has exited and its 'exit' event was handled, in whatever order the events
\* arrive and for every account-list length; it forks one worker per chunk first.
C2_PrimaryExitsAfterAllWorkers ==
    primaryExit # -1
        => /\ primaryExit = 0
           /\ mpc = "exited"
           /\ Len(workers) = Len(accountChunks)
           /\ \A w \in DOMAIN workers :
                workers[w].state = "exited" /\ CountOf(reported, w) = 1
           /\ exitEvents = {}

C2_Witness ==
    /\ primaryExit = 0
    /\ clusters = 3
    /\ reported = <<3, 1, 2>>
    /\ workers[1].code = 1
    /\ workers[2].code = 0

\* C3: with clusters > 1 and any account list (empty, or shorter than the worker
\* count, included), activeWorkers counts the forked workers whose exit the primary
\* has not handled yet, so it is zero exactly when all of them have exited and been
\* handled; and once every forked worker has exited the primary eventually exits
\* with code 0.
C3_PrimaryExitsWhenAllWorkersExited ==
    /\ [](mpc \in {"listening", "exited"}
            => /\ activeWorkers = Cardinality(Unreported)
               /\ activeWorkers = 0 <=> primaryExit = 0
               /\ Alive \subseteq Unreported)
    /\ ((mpc \in {"forking", "listening"} /\ forkI = Len(accountChunks) /\ Alive = {})
            ~> primaryExit = 0)

C3_Witness ==
    /\ primaryExit = 0
    /\ clusters = 3
    /\ Len(accounts) = 1
    /\ activeWorkers = 0
    /\ Len(workers) = 3

\* The messages sent by the primary: <<worker, position among those sent to it>>.
SentMessages == UNION {{<<w, m>> : m \in DOMAIN sent[w]} : w \in DOMAIN sent}

\* C4: with clusters > 1 the i-th chunk of the partition is sent once, to the i-th
\* forked worker and to no other, every forked worker is sent exactly one chunk and
\* runs runTasks on that chunk, and so every loaded account is handed to exactly one
\* worker.
C4_OneChunkPerWorker ==
    /\ Len(sent) = Len(workers)
    /\ Len(workers) = forkI
    /\ \A w \in DOMAIN workers :
         /\ sent[w] = <<accountChunks[w]>>
         /\ workers[w].state \notin {"spawned", "waiting"}
                => (workers[w].chunk = accountChunks[w] /\ inbox[w] = <<>>)
    /\ mpc \in {"listening", "exited"}
         => /\ Len(workers) = Len(accountChunks)
            /\ \A a \in Range(accounts) :
                 Cardinality({wm \in SentMessages :
                                a \in Range(sent[wm[1]][wm[2]])}) = 1

C4_Witness ==
    /\ mpc = "listening"
    /\ clusters = 2
    /\ Len(accounts) = 3
    /\ workers[1].state = "running" /\ workers[1].chunk = <<1, 2>>
    /\ workers[2].state = "running" /\ workers[2].chunk = <<3>>

\* C11: an abnormal worker exit makes the primary fork no replacement and does not
\* make it fail: handling an 'exit' event only decrements activeWorkers, workers are
\* forked in the loop of runMaster alone, and the primary's exit code is 0.
C11_AbnormalExitNoReforkNoFailure ==
    /\ [](primaryExit \in {-1, 0} /\ Len(workers) <= Len(accountChunks))
    /\ [][/\ Len(workers') > Len(workers) => (mpc = "forking" /\ exitEvents' = exitEvents)
          /\ reported' # reported
                => /\ Len(workers') = Len(workers)
                   /\ sent' = sent
                   /\ inbox' = inbox
                   /\ activeWorkers' = activeWorkers - 1
                   /\ primaryExit' \in {-1, 0}]_vars

C11_Witness ==
    /\ primaryExit = 0
    /\ Len(reported) = 3
    /\ workers[reported[3]].code = 1
    /\ \A w \in DOMAIN workers : workers[w].code = 1
    /\ Len(workers) = 3

\* C12: with clusters <= 1 the launching process forks no worker and sends no chunk;
\* it runs runTasks itself on the whole loaded list, the accounts in list order, and
\* exits with 0 only after all of them.
C12_SingleProcessRunsWholeList ==
    clusters <= 1
        => /\ mpc = "run" /\ workers = <<>> /\ sent = <<>> /\ forkI = 0
           /\ pc = "run" => ENABLED Run
           /\ pc # "run" => chunk = accounts
           /\ \A k \in 1..Len(accounts) :
                accounts[k] \in desktopStarted
                    => /\ k <= idx
                       /\ \A j \in 1..(k - 1) : accounts[j] \in desktopReturned
           /\ exitCode = 0 => desktopReturned = Range(accounts)

C12_Witness ==
    /\ clusters = 0
    /\ Len(accounts) = 2
    /\ exitCode = 0
    /\ desktopReturned = {1, 2}
    /\ workers = <<>>

\* C13: a lane whose collaborator calls all return finishes its chunk and exits with
\* code 0 (every behaviour either meets a fault or reaches exit code 0), and it never
\* exits with code 0 before the Desktop phase of every account of the chunk has run.
C13_LaneFinishesChunk ==
    /\ [](exitCode = 0
            => /\ pc = "exited"
               /\ fault = "none"
               /\ idx = Len(chunk) + 1
               /\ Range(chunk) \subseteq desktopReturned)
    /\ <>(fault # "none" \/ exitCode = 0)

C13_Witness ==
    /\ exitCode = 0
    /\ fault = "none"
    /\ Len(chunk) = 2
    /\ mobileReturned = {1}
    /\ mobileSkipped = {2}

\* The Desktop executors in source order, and the flag that gates each.
DesktopExecutors == <<"doDailySet", "doMorePromotions", "doPunchCard", "doSearch">>

FlagOf(name) ==
    CASE name = "doDailySet" -> workerFlags.doDailySet
      [] name = "doMorePromotions" -> workerFlags.doMorePromotions
      [] name = "doPunchCard" -> workerFlags.doPunchCards
      [] name = "doSearch" -> workerFlags.doDesktopSearch

EnabledDesktopExecutors == SelectSeq(DesktopExecutors, FlagOf)

IsPrefix(s, t) == Len(s) <= Len(t) /\ SubSeq(t, 1, Len(s)) = s

\* C14: in a Desktop phase that passes the gate the executors are invoked in the
\* order daily set, more-promotions, punch cards, desktop search, each exactly once if
\* its own flag is set and not at all otherwise.
C14_DesktopExecutorsInOrder ==
    (/\ phase = "Desktop"
     /\ "getEarnablePoints" \in Range(steps)
     /\ ~(~runOnZeroPoints /\ earnablePoints = 0))
        => /\ IsPrefix(Invoked, EnabledDesktopExecutors)
           /\ pc \in {"d_close", "gate"} => Invoked = EnabledDesktopExecutors
           /\ pc = "gate" => steps = DesktopPrefix \o EnabledDesktopExecutors \o <<"close">>

C14_Witness ==
    /\ pc = "gate"
    /\ workerFlags.doDailySet /\ ~workerFlags.doMorePromotions
    /\ workerFlags.doPunchCards /\ workerFlags.doDesktopSearch
    /\ Invoked = <<"doDailySet", "doPunchCard", "doSearch">>

\* C15: in Mobile a goHome result of false raises no fault: the next call is
\* getDashboardData and the phase goes on; and when Mobile has returned (early exit
\* or full run) runTasks goes on with the next account of the chunk.
C15_MobileGoHomeNotFatal ==
    /\ [](/\ (phase = "Mobile" /\ fault = "DashboardUnreachable") => FALSE
          /\ (phase = "Mobile" /\ "goHomeFalse" \in Range(steps)
                /\ pc \notin {"m_data", "aborted", "exited"})
                => "getDashboardData" \in Range(steps))
    /\ [][/\ pc = "m_home" => pc' = "m_data"
          /\ pc = "next" => (pc' = "loop" /\ idx' = idx + 1 /\ fault' = "none")]_vars

C15_Witness ==
    /\ pc = "loop"
    /\ idx = 2
    /\ Len(chunk) = 2
    /\ phase = "Mobile"
    /\ "goHomeFalse" \in Range(steps)
    /\ "getDashboardData" \in Range(steps)
    /\ fault = "none"

\* The calls every phase run begins with, in source order.
Lifecycle == <<"open", "prune", "authenticate", "login", "goHome", "getDashboardData">>

StepName(s) == IF s = "goHomeFalse" THEN "goHome" ELSE s

\* C16: in Desktop and in Mobile the calls of a phase run come in the order open,
\* prune pages, authenticate proxy, login, goHome, getDashboardData, then executors /
\* getEarnablePoints, then close as the last; no call is made twice.
C16_LifecycleOrder ==
    phase \in {"Desktop", "Mobile"}
        => /\ \A i \in DOMAIN steps :
                IF i <= Len(Lifecycle)
                THEN StepName(steps[i]) = Lifecycle[i]
                ELSE steps[i] \in (Executors \cup {"getEarnablePoints", "close"})
           /\ \A i, j \in DOMAIN steps : i < j => steps[i] # steps[j]
           /\ \A i \in DOMAIN steps : steps[i] = "close" => i = Len(steps)
           /\ pc \in {"gate", "next"} => steps[Len(steps)] = "close"

C16_Witness ==
    /\ phase = "Mobile"
    /\ pc = "next"
    /\ steps = <<"open", "prune", "authenticate", "login", "goHomeFalse",
                 "getDashboardData", "doMobileSearch", "getEarnablePoints", "close">>

\* C17: the collectedPoints read by the gate of runTasks is the value getEarnablePoints
\* returned in the Desktop phase of that same account, whatever an earlier account
\* left in collectedPoints.
C17_GateReadsOwnDesktopValue ==
    pc = "gate"
        => /\ phase = "Desktop"
           /\ steps[Len(DesktopPrefix)] = "getEarnablePoints"
           /\ collectedPoints = earnablePoints
           /\ chunk[idx] \in desktopReturned

C17_Witness ==
    /\ pc = "gate"
    /\ idx = 2
    /\ chunk[1] \in mobileReturned
    /\ ~runOnZeroPoints
    /\ collectedPoints = 0

\* C18: when Desktop has returned, it returned by its early exit iff runTasks skips
\* the Mobile phase of that account; an early exit ran no executor.
C18_GatesAgree ==
    /\ []((pc = "gate" /\ earlyExit) => Invoked = <<>>)
    /\ [][pc = "gate" => (earlyExit <=> (pc' = "loop" /\ chunk[idx] \in mobileSkipped'))]_vars

C18_Witness ==
    /\ pc = "loop"
    /\ idx = 2
    /\ earlyExit
    /\ chunk[1] \in mobileSkipped

\* C19: at most one session is open at any time; none is open when a phase is about
\* to open one or has returned, so the Mobile session of an account is not opened
\* while its Desktop session is open, nor any session of a later account.
C19_OneSessionAtATime ==
    /\ Cardinality(sessions) <= 1
    /\ pc \in {"loop", "d_create", "gate", "m_create", "next"} => sessions = {}
    /\ sessions # {} => sessions = {<<chunk[idx], phase>>}

C19_Witness ==
    /\ pc = "m_pages"
    /\ idx = 2
    /\ sessions = {<<chunk[2], "Mobile">>}

\* C20 as stated: collectedPoints is never negative, and after an account's Mobile
\* phase it does not exceed the value its Desktop phase stored.
C20_NeverNegative ==
    /\ collectedPoints >= 0
    /\ pc = "next" => collectedPoints <= desktopPoints

\* C20 amended: collectedPoints never exceeds the value the Desktop phase stored; it
\* is negative only after a Mobile phase whose re-fetched earnable value exceeds that
\* Desktop value, and non-negative after every Mobile phase whose re-fetched value
\* does not exceed it.
C20_BoundedByDesktopValue ==
    /\ collectedPoints <= desktopPoints
    /\ collectedPoints < 0 => (earnablePoints > desktopPoints /\ mobileStarted # {})
    /\ (phase = "Mobile" /\ "getEarnablePoints" \in Range(steps)
            /\ earnablePoints <= desktopPoints)
         => collectedPoints >= 0

C20_Witness ==
    /\ pc = "next"
    /\ desktopPoints = 10
    /\ earnablePoints = 30
    /\ collectedPoints = -20

====
